---- MODULE Spec2Model ----
(***************************************************************************)
(* A model of dg's SmallOffsetsPointsToSet                                 *)
(* (include/dg/analysis/PointsTo/SmallOffsetsPointsToSet.h): two set       *)
(* instances sharing the process-wide identity table, and the operations   *)
(* add, add(set), remove, removeAny, clear, the queries and the iterator;  *)
(* and of the reaching-definitions graph, node and analysis                *)
(* (include/dg/analysis/ReachingDefinitions/ReachingDefinitions.h).        *)
(***************************************************************************)
EXTENDS Integers, Sequences, FiniteSets, TLC

\* ------------------------------------------------------------------ bounds

\* Width of an offset in the model (uint64_t in the code): UNKNOWN is the
\* all-ones value of that width.
OffsetBits == 7

\* Largest number of pointers the set instances hold together in the model.
MaxPointers == 4

\* Largest number of RDNode objects alive in the model, UNKNOWN_MEMORY included.
MaxNodes == 4

\* Largest options.maxSetSize an analysis is constructed with in the model.
MaxCap == 2

\* Largest number of edges of a graph the analysis runs on in the model.
MaxEdges == 4

\* Largest number of getNodes calls made on one analysis in the model.
MaxRuns == 3

\* ------------------------------------------------------- program constants

\* The stride of one target in the bit vector (getNodePosition).
Stride == 64

\* The largest finite offset kept in the bit vector (isOffsetValid).
MaxSmallOffset == 62

\* The bit of a target that stands for the UNKNOWN offset (getPosition).
UnknownBit == 63

\* Offset::UNKNOWN, the all-ones offset.
UNKNOWN == 2^OffsetBits - 1

\* The null pointer; RDNode objects are named by their addresses 1, 2, ...
nullptr == 0

\* The address of the static node UNKNOWN_MEMORY, built without a graph.
UNKNOWN_MEMORY == 1

\* ------------------------------------------------------------- the universe

\* Two set instances.
Sets == {"A", "B"}

\* Two PSNode objects, named by their addresses (the order of std::set<Pointer>).
Targets == {1, 2}

\* The finite offsets of the model: the last one of the bit vector and the
\* first one of the overflow set.
FiniteOffsets == {MaxSmallOffset, MaxSmallOffset + 1}

Offsets == FiniteOffsets \cup {UNKNOWN}

Pointer(t, o) == [target |-> t, offset |-> o]

Pointers == {Pointer(t, o) : t \in Targets, o \in Offsets}

VARIABLES
    pointers,       \* pointers[s]: the bits set in s's SparseBitvector
    largePointers,  \* largePointers[s]: s's std::set<Pointer>
    ids,            \* ids[t]: the identity of target t, 0 when it has none
    idVector,       \* the targets in the order of their identities
    last,           \* the last call: operation, arguments, return value, and
                    \* the parity of the number of calls made so far
    nodes,          \* nodes[a]: the RDNode object at address a
    lastNodeID,     \* ReachingDefinitionsGraph::lastNodeID
    root,           \* ReachingDefinitionsGraph::root
    options,        \* ReachingDefinitionsAnalysis::options
    dfsnum,         \* ReachingDefinitionsAnalysis::dfsnum
    pc,             \* where the analysis is: "build", "constructed", "run", "done"
    to_process,     \* run(): the nodes of the pass still to process
    changed,        \* run(): the nodes the pass changed so far
    passes          \* run(): the number of passes started

\* The state of the points-to sets and of the reaching-definitions analysis.
ptVars == <<pointers, largePointers, ids, idVector>>
rdVars == <<nodes, lastNodeID, root, options, dfsnum, pc, to_process, changed, passes>>

vars == <<pointers, largePointers, ids, idVector, last,
          nodes, lastNodeID, root, options, dfsnum, pc, to_process, changed, passes>>

\* ------------------------------------------------------ Offset and Pointer

isUnknown(off) == off = UNKNOWN

\* Pointer::operator<: by target, then by offset.
PointerLess(p, q) ==
    IF p.target = q.target THEN p.offset < q.offset ELSE p.target < q.target

\* ------------------------------------------------------ ADT::SparseBitvector

\* get(i)
bvGet(bits, i) == i \in bits

\* set(i): the bits afterwards; the call returns the previous value of bit i
bvSet(bits, i) == bits \cup {i}

\* unset(i): the bits afterwards; the call returns the previous value of bit i
bvUnset(bits, i) == bits \ {i}

\* set(rhs): the union; the call returns whether a bit was added
bvUnion(bits, rhs) == bits \cup rhs

bvUnionChanged(bits, rhs) == ~(rhs \subseteq bits)

\* size(): the number of bits set
bvSize(bits) == Cardinality(bits)

\* ------------------------------------------------------------ the id table

idsSize == Cardinality({t \in Targets : ids[t] # 0})

\* getNodeID: the identity of node, a new one (ids.size() + 1) when it has none.
getNodeID(node) == IF ids[node] # 0 THEN ids[node] ELSE idsSize + 1

\* The table after getNodeID(node), the new identity read off idVector after
\* the push_back instead of off ids before the emplace.
idsAfter_AfterPush(node) ==
    IF ids[node] # 0 THEN ids ELSE [ids EXCEPT ![node] = Len(idVector) + 2]
\* The table after getNodeID(node).
idsAfter(node) ==
    IF ids[node] # 0 THEN ids ELSE [ids EXCEPT ![node] = idsSize + 1]

idVectorAfter(node) ==
    IF ids[node] # 0 THEN idVector ELSE Append(idVector, node)

getNodePosition(node) == (getNodeID(node) - 1) * Stride

getPosition(node, off) ==
    IF isUnknown(off) THEN getNodePosition(node) + UnknownBit
    ELSE getNodePosition(node) + off

\* isOffsetValid with the bound one too far (*off <= 63).
isOffsetValid_Off63(off) == isUnknown(off) \/ off <= UnknownBit

isOffsetValid(off) == isUnknown(off) \/ off <= MaxSmallOffset

\* ----------------------------------------------------------------- queries
\* A set value sv is a record [pointers, largePointers].

SV(s) == [pointers |-> pointers[s], largePointers |-> largePointers[s]]

pointsTo(sv, ptr) ==
    IF isOffsetValid(ptr.offset)
    THEN bvGet(sv.pointers, getPosition(ptr.target, ptr.offset))
    ELSE ptr \in sv.largePointers

count(sv, ptr) == IF pointsTo(sv, ptr) THEN 1 ELSE 0

has(sv, ptr) == count(sv, ptr) > 0

mayPointTo(sv, ptr) ==
    pointsTo(sv, ptr) \/ pointsTo(sv, Pointer(ptr.target, UNKNOWN))

pointsToTarget(sv, target) ==
    LET position == getNodePosition(target)
    IN  \/ \E i \in position .. (position + Stride - 1) : bvGet(sv.pointers, i)
        \/ \E ptr \in sv.largePointers : ptr.target = target

\* isSingleton that accepts one pointer in either container, whatever the
\* other holds.
isSingleton_Either(sv) ==
    bvSize(sv.pointers) = 1 \/ Cardinality(sv.largePointers) = 1

isSingleton(sv) ==
    \/ bvSize(sv.pointers) = 1 /\ Cardinality(sv.largePointers) = 0
    \/ bvSize(sv.pointers) = 0 /\ Cardinality(sv.largePointers) = 1

empty(sv) == bvSize(sv.pointers) = 0 /\ Cardinality(sv.largePointers) = 0

size(sv) == bvSize(sv.pointers) + Cardinality(sv.largePointers)

\* ---------------------------------------------------------------- mutators
\* Each gives the set value afterwards and the value the call returns.

Result(bits, large, ret) ==
    [pointers |-> bits, largePointers |-> large, ret |-> ret]

\* removeAny whose loop stops one bit early (i < position + 63).
removeAny_OffByOne(sv, target) ==
    LET position == getNodePosition(target)
        range == position .. (position + Stride - 2)
        mine == {ptr \in sv.largePointers : ptr.target = target}
    IN  Result(sv.pointers \ range, sv.largePointers \ mine,
               (sv.pointers \cap range # {}) \/ mine # {})

removeAny(sv, target) ==
    LET position == getNodePosition(target)
        range == position .. (position + Stride - 1)
        mine == {ptr \in sv.largePointers : ptr.target = target}
    IN  Result(sv.pointers \ range, sv.largePointers \ mine,
               (sv.pointers \cap range # {}) \/ mine # {})

addWithUnknownOffset(sv, target) ==
    LET r == removeAny(sv, target)
        pos == getPosition(target, UNKNOWN)
    IN  Result(bvSet(r.pointers, pos), r.largePointers, ~bvGet(r.pointers, pos))

\* add without the early return on a target that has UNKNOWN.
add_NoUnknownCheck(sv, target, off) ==
    IF isUnknown(off)
    THEN addWithUnknownOffset(sv, target)
    ELSE IF isOffsetValid(off)
    THEN Result(bvSet(sv.pointers, getPosition(target, off)), sv.largePointers,
                ~bvGet(sv.pointers, getPosition(target, off)))
    ELSE Result(sv.pointers, sv.largePointers \cup {Pointer(target, off)},
                Pointer(target, off) \notin sv.largePointers)

add(sv, target, off) ==
    IF has(sv, Pointer(target, UNKNOWN))
    THEN Result(sv.pointers, sv.largePointers, FALSE)
    ELSE IF isUnknown(off)
    THEN addWithUnknownOffset(sv, target)
    ELSE IF isOffsetValid(off)
    THEN Result(bvSet(sv.pointers, getPosition(target, off)), sv.largePointers,
                ~bvGet(sv.pointers, getPosition(target, off)))
    ELSE Result(sv.pointers, sv.largePointers \cup {Pointer(target, off)},
                Pointer(target, off) \notin sv.largePointers)

\* add(set) that drops the result of the overflow inserts (no changed |=).
addSet_BitsOnly(sv, S) ==
    Result(bvUnion(sv.pointers, S.pointers),
           sv.largePointers \cup S.largePointers,
           bvUnionChanged(sv.pointers, S.pointers))

\* add(set) that counts every overflow insert as a change (no .second).
addSet_AnyInsert(sv, S) ==
    Result(bvUnion(sv.pointers, S.pointers),
           sv.largePointers \cup S.largePointers,
           bvUnionChanged(sv.pointers, S.pointers) \/ S.largePointers # {})

addSet(sv, S) ==
    Result(bvUnion(sv.pointers, S.pointers),
           sv.largePointers \cup S.largePointers,
           bvUnionChanged(sv.pointers, S.pointers)
               \/ ~(S.largePointers \subseteq sv.largePointers))

\* remove without the isOffsetValid test: always a bit of the bit vector.
remove_BitsOnly(sv, ptr) ==
    Result(bvUnset(sv.pointers, getPosition(ptr.target, ptr.offset)),
           sv.largePointers,
           bvGet(sv.pointers, getPosition(ptr.target, ptr.offset)))

remove(sv, ptr) ==
    IF isOffsetValid(ptr.offset)
    THEN Result(bvUnset(sv.pointers, getPosition(ptr.target, ptr.offset)),
                sv.largePointers,
                bvGet(sv.pointers, getPosition(ptr.target, ptr.offset)))
    ELSE Result(sv.pointers, sv.largePointers \ {ptr}, ptr \in sv.largePointers)

clear(sv) == Result({}, {}, FALSE)

\* ---------------------------------------------------------- const_iterator

\* SparseBitvector::const_iterator visits the set bits in ascending order.
RECURSIVE bvSeq(_)
bvSeq(bits) ==
    IF bits = {} THEN << >>
    ELSE LET m == CHOOSE x \in bits : \A y \in bits : x <= y
         IN  <<m>> \o bvSeq(bits \ {m})

\* std::set<Pointer>::const_iterator visits the pointers in ascending order.
RECURSIVE largeSeq(_)
largeSeq(large) ==
    IF large = {} THEN << >>
    ELSE LET m == CHOOSE p \in large : \A q \in large \ {p} : PointerLess(p, q)
         IN  <<m>> \o largeSeq(large \ {m})

\* An iterator: bitvector_it and set_it as places in those two sequences (the
\* place after the last one is end()), and secondContainer.
Iterator(bit, set, second) ==
    [bitvector_it |-> bit, set_it |-> set, secondContainer |-> second]

\* const_iterator(pointers, largePointers, end)
itNew(sv, end) ==
    LET bitvector_end == Len(bvSeq(sv.pointers)) + 1
        bitvector_it == IF end THEN bitvector_end ELSE 1
        set_it == IF end THEN Len(largeSeq(sv.largePointers)) + 1 ELSE 1
    IN  Iterator(bitvector_it, set_it,
                 IF bitvector_it = bitvector_end THEN TRUE ELSE end)

begin(sv) == itNew(sv, FALSE)

end(sv) == itNew(sv, TRUE)

\* operator++
itIncrement(sv, it) ==
    IF ~it.secondContainer
    THEN LET next == it.bitvector_it + 1
         IN  Iterator(next, it.set_it, next = Len(bvSeq(sv.pointers)) + 1)
    ELSE Iterator(it.bitvector_it, it.set_it + 1, it.secondContainer)

\* operator* that does not read bit 63 as UNKNOWN.
itDeref_RawOffset(sv, it) ==
    IF ~it.secondContainer
    THEN LET bit == bvSeq(sv.pointers)[it.bitvector_it]
             offsetID == bit % Stride
             nodeID == ((bit - offsetID) \div Stride) + 1
         IN  Pointer(idVector[nodeID], offsetID)
    ELSE largeSeq(sv.largePointers)[it.set_it]

\* operator*
itDeref(sv, it) ==
    IF ~it.secondContainer
    THEN LET bit == bvSeq(sv.pointers)[it.bitvector_it]
             offsetID == bit % Stride
             nodeID == ((bit - offsetID) \div Stride) + 1
         IN  IF offsetID = UnknownBit
             THEN Pointer(idVector[nodeID], UNKNOWN)
             ELSE Pointer(idVector[nodeID], offsetID)
    ELSE largeSeq(sv.largePointers)[it.set_it]

\* operator==
itEqual(it, rhs) ==
    it.bitvector_it = rhs.bitvector_it /\ it.set_it = rhs.set_it

\* for (it = begin(); it != end(); ++it) yield *it, from iterator it on.
RECURSIVE IterateFrom(_, _, _)
IterateFrom(sv, it, fuel) ==
    IF itEqual(it, end(sv)) \/ fuel = 0 THEN << >>
    ELSE <<itDeref(sv, it)>> \o IterateFrom(sv, itIncrement(sv, it), fuel - 1)

\* The pointers a loop over the set visits, in order.
Iterate(sv) == IterateFrom(sv, begin(sv), size(sv) + 1)

\* ----------------------------------------------- reaching-definitions data

\* DefSite(target, offset, len): the bytes [offset, offset + len) of target.
DefSite(target, offset, len) == [target |-> target, offset |-> offset, len |-> len]

\* The memory of the model: two allocations, X written at two overlapping
\* ranges.
MemTargets == {"X", "Y"}
X04 == DefSite("X", 0, 4)
X26 == DefSite("X", 2, 4)
Y04 == DefSite("Y", 0, 4)
Sites == {X04, X26, Y04}

\* An RDMap without entries: no definition of any site.
EmptyMap == [ds \in Sites |-> {}]

\* RDNode(id, t): a node with identity id, no sites, an empty RDMap, never visited.
RDNode(id) ==
    [id |-> id, dfsid |-> 0, defs |-> {}, overwrites |-> {}, uses |-> {},
     def_map |-> EmptyMap, successors |-> << >>]

\* The addresses of the RDNode objects alive.
Addrs == 1..Len(nodes)

\* The offsets defines is asked about: inside X04 only, inside X26 only,
\* inside neither, and UNKNOWN.
QueryOffsets == {0, 5, 7, UNKNOWN}

\* off.inRange(from, to): from <= off <= to
inRange(off, from, to) == off >= from /\ off <= to

\* def_map.update(ds, n): the site ds is now defined by n.
update(map, ds, n) == [map EXCEPT ![ds] = {n}]

\* node.addUse(ds), node being the object at address this
addUse(node, this, ds) == [node EXCEPT !.uses = @ \cup {ds}]

\* node.addDef(ds, strong_update) without def_map.update(ds, this)
addDef_NoFold(node, this, ds, strong_update) ==
    IF strong_update THEN [node EXCEPT !.overwrites = @ \cup {ds}]
    ELSE [node EXCEPT !.defs = @ \cup {ds}]
\* node.addDef(ds, strong_update)
addDef(node, this, ds, strong_update) ==
    IF strong_update
    THEN [node EXCEPT !.overwrites = @ \cup {ds},
                      !.def_map = update(@, ds, this)]
    ELSE [node EXCEPT !.defs = @ \cup {ds},
                      !.def_map = update(@, ds, this)]

\* node.addOverwrites(ds)
addOverwrites(node, this, ds) == [node EXCEPT !.overwrites = @ \cup {ds}]

\* node.defines(target, off)
defines(node, target, off) ==
    IF isUnknown(off)
    THEN \E ds \in node.defs : ds.target = target
    ELSE \/ \E ds \in node.defs :
              ds.target = target /\ inRange(off, ds.offset, ds.offset + ds.len)
         \/ \E ds \in node.overwrites :
              ds.target = target /\ inRange(off, ds.offset, ds.offset + ds.len)

\* ReachingDefinitionsGraph::create(t), the counter incremented after the
\* node is built.
create_PostIncrement(lastID) ==
    [lastNodeID |-> lastID + 1, node |-> RDNode(lastID)]
\* ReachingDefinitionsGraph::create(t): new RDNode(++lastNodeID, t)
create(lastID) ==
    [lastNodeID |-> lastID + 1, node |-> RDNode(lastID + 1)]

\* The constructor's assertions with the cap compared by >= 0.
constructible_ZeroCap(r, maxSetSize) == r # nullptr /\ maxSetSize >= 0
\* The two assertions of ReachingDefinitionsAnalysis's constructor.
constructible(r, maxSetSize) == r # nullptr /\ maxSetSize > 0

\* ------------------------------------------------- the fixed-point analysis

\* The elements of a set of addresses in ascending order.
RECURSIVE Ascending(_)
Ascending(S) ==
    IF S = {} THEN << >>
    ELSE LET m == CHOOSE x \in S : \A y \in S : x <= y
         IN  <<m>> \o Ascending(S \ {m})

Range(seq) == {seq[i] : i \in 1..Len(seq)}

\* DfsIdTracker: a node is visited in the traversal numbered dnum when it
\* carries that number.
visit(node, dnum) == [node EXCEPT !.dfsid = dnum]
\* DfsIdTracker::visited as a flag that is set once and never reset.
visited_Ever(node, dnum) == node.dfsid # 0
visited(node, dnum) == node.dfsid = dnum

\* BFS::run: the nodes leave the queue in the order they entered it, and a
\* successor enters it, and is marked, the first time it is seen.
RECURSIVE bfsRun(_, _, _)
bfsRun(ns, queue, dnum) ==
    IF queue = << >> THEN [cont |-> << >>, nodes |-> ns]
    ELSE LET n == Head(queue)
             fresh == SelectSeq(ns[n].successors,
                                LAMBDA m : ~visited(ns[m], dnum))
             marked == [a \in DOMAIN ns |->
                          IF a \in Range(fresh) THEN visit(ns[a], dnum) ELSE ns[a]]
             rest == bfsRun(marked, Tail(queue) \o fresh, dnum)
         IN  [cont |-> <<n>> \o rest.cont, nodes |-> rest.nodes]

\* getNodes(start) that collects the start node alone.
getNodes_StartOnly(ns, start, dnum) ==
    [cont |-> <<start>>,
     nodes |-> [ns EXCEPT ![start] = visit(@, dnum)]]
\* getNodes(start), dnum being dfsnum after ++dfsnum: the nodes reachable from
\* start in BFS order, and the nodes with their marks.
getNodes(ns, start, dnum) ==
    bfsRun([ns EXCEPT ![start] = visit(@, dnum)], <<start>>, dnum)

\* The nodes n is a successor of.
predecessors_Least(ns, n) ==
    LET P == {p \in DOMAIN ns : n \in Range(ns[p].successors)}
    IN  IF P = {} THEN {} ELSE {CHOOSE p \in P : \A q \in P : p <= q}
predecessors(ns, n) == {p \in DOMAIN ns : n \in Range(ns[p].successors)}

\* A contributor set under the cap: UNKNOWN_MEMORY alone once it is among the
\* contributors or they are more than maxSetSize.
crop_OffByOne(S, maxSetSize) ==
    IF UNKNOWN_MEMORY \in S \/ Cardinality(S) > maxSetSize + 1
    THEN {UNKNOWN_MEMORY} ELSE S
crop(S, maxSetSize) ==
    IF UNKNOWN_MEMORY \in S \/ Cardinality(S) > maxSetSize
    THEN {UNKNOWN_MEMORY} ELSE S

\* processNode(n) that applies the overwrites as it applies the defs.
processNode_WeakOnly(ns, n, maxSetSize) ==
    LET node == ns[n]
        merged == [r \in Sites |->
                    node.def_map[r]
                        \cup UNION {ns[p].def_map[r] : p \in predecessors(ns, n)}]
        weak == [r \in Sites |->
                    IF r \in node.defs \cup node.overwrites
                    THEN merged[r] \cup {n} ELSE merged[r]]
    IN  [node EXCEPT !.def_map = [r \in Sites |-> crop(weak[r], maxSetSize)]]
\* processNode(n): the node at n after it; the maps of its predecessors are
\* merged into its own, its overwrites replace the contributors of their site
\* by n, its defs add n to those of theirs, and each set is put under the cap.
processNode(ns, n, maxSetSize) ==
    LET node == ns[n]
        merged == [r \in Sites |->
                    node.def_map[r]
                        \cup UNION {ns[p].def_map[r] : p \in predecessors(ns, n)}]
        strong == [r \in Sites |->
                    IF r \in node.overwrites THEN {n} ELSE merged[r]]
        weak == [r \in Sites |->
                    IF r \in node.defs THEN strong[r] \cup {n} ELSE strong[r]]
    IN  [node EXCEPT !.def_map = [r \in Sites |-> crop(weak[r], maxSetSize)]]

\* The bytes [off, off + len) meet those of the site ds.
intersects(ds, off, len) == ds.offset < off + len /\ off < ds.offset + ds.len

\* node.getReachingDefinitions(target, off, len, ret): the contributors of the
\* sites of target that meet [off, off + len).
getReachingDefinitions(node, target, off, len) ==
    UNION {node.def_map[r] :
             r \in {q \in Sites : q.target = target /\ intersects(q, off, len)}}

\* ----------------------------------------------------------------- actions

\* The record of a call: its name, its arguments and what it returned; a call
\* that returns a new object is recorded with the object's address as args.
Call(op, args, ret) ==
    [op |-> op, args |-> args, ret |-> ret, tick |-> 1 - last.tick]

\* The number of pointers all the sets hold together.
Held(bits, large) ==
    Cardinality(UNION {{<<x, i>> : i \in bits[x]} : x \in Sets})
        + Cardinality(UNION {{<<x, q>> : q \in large[x]} : x \in Sets})

\* Set s takes the value the call left, within the model's bound.
Store(s, r) ==
    /\ pointers' = [pointers EXCEPT ![s] = r.pointers]
    /\ largePointers' = [largePointers EXCEPT ![s] = r.largePointers]
    /\ Held(pointers', largePointers') <= MaxPointers

Init ==
    /\ pointers = [s \in Sets |-> {}]
    /\ largePointers = [s \in Sets |-> {}]
    /\ ids = [t \in Targets |-> 0]
    /\ idVector = << >>
    /\ last = [op |-> "init", args |-> << >>, ret |-> FALSE, tick |-> 0]
    /\ nodes = <<RDNode(0)>>
    /\ lastNodeID = 0
    /\ root = nullptr
    /\ options = [maxSetSize |-> 0]
    /\ dfsnum = 0
    /\ pc = "build"
    /\ to_process = << >>
    /\ changed = {}
    /\ passes = 0

\* s.add(target, off)
Add(s, target, off) ==
    LET r == add(SV(s), target, off)
    IN  /\ Store(s, r)
        /\ ids' = idsAfter(target)
        /\ idVector' = idVectorAfter(target)
        /\ last' = Call("add", <<s, target, off>>, r.ret)
        /\ UNCHANGED rdVars

\* s.add(S)
AddSet(s, S) ==
    LET r == addSet(SV(s), SV(S))
    IN  /\ Store(s, r)
        /\ UNCHANGED <<ids, idVector>>
        /\ last' = Call("addSet", <<s, S>>, r.ret)
        /\ UNCHANGED rdVars

\* s.remove(Pointer(target, off)); only a bit-vector offset looks the target up
Remove(s, target, off) ==
    LET r == remove(SV(s), Pointer(target, off))
    IN  /\ Store(s, r)
        /\ ids' = IF isOffsetValid(off) THEN idsAfter(target) ELSE ids
        /\ idVector' = IF isOffsetValid(off) THEN idVectorAfter(target) ELSE idVector
        /\ last' = Call("remove", <<s, target, off>>, r.ret)
        /\ UNCHANGED rdVars

\* s.removeAny(target)
RemoveAny(s, target) ==
    LET r == removeAny(SV(s), target)
    IN  /\ Store(s, r)
        /\ ids' = idsAfter(target)
        /\ idVector' = idVectorAfter(target)
        /\ last' = Call("removeAny", <<s, target>>, r.ret)
        /\ UNCHANGED rdVars

\* s.clear()
Clear(s) ==
    LET r == clear(SV(s))
    IN  /\ Store(s, r)
        /\ UNCHANGED <<ids, idVector>>
        /\ last' = Call("clear", <<s>>, FALSE)
        /\ UNCHANGED rdVars

Next ==
    \/ \E s \in Sets, t \in Targets, o \in Offsets : Add(s, t, o)
    \/ \E s \in Sets, S \in Sets : AddSet(s, S)
    \/ \E s \in Sets, t \in Targets, o \in Offsets : Remove(s, t, o)
    \/ \E s \in Sets, t \in Targets : RemoveAny(s, t)
    \/ \E s \in Sets : Clear(s)

Spec == Init /\ [][Next]_vars

\* ----------------------------------------------------------------- queries

\* mustPointTo(ptr) without its assertion: pointsTo(ptr) && isSingleton()
mustPointTo_NoSingleton(sv, ptr) == pointsTo(sv, ptr)
mustPointTo(sv, ptr) == pointsTo(sv, ptr) /\ isSingleton(sv)

\* A failed assert ends the process: no call follows it.
Alive == last.op # "abort"

\* s.pointsTo(Pointer(target, off)); a bit-vector offset looks the target up
PointsTo(s, target, off) ==
    /\ Alive
    /\ UNCHANGED <<pointers, largePointers>>
    /\ ids' = IF isOffsetValid(off) THEN idsAfter(target) ELSE ids
    /\ idVector' = IF isOffsetValid(off) THEN idVectorAfter(target) ELSE idVector
    /\ last' = Call("pointsTo", <<s, target, off>>,
                    pointsTo(SV(s), Pointer(target, off)))
    /\ UNCHANGED rdVars

\* s.pointsToTarget(target); the set is only scanned, no target is looked up
PointsToTarget(s, target) ==
    /\ Alive
    /\ UNCHANGED <<pointers, largePointers, ids, idVector>>
    /\ last' = Call("pointsToTarget", <<s, target>>, pointsToTarget(SV(s), target))
    /\ UNCHANGED rdVars

\* s.mustPointTo(Pointer(target, off)); assert(!ptr.offset.isUnknown()) first
MustPointTo(s, target, off) ==
    /\ Alive
    /\ UNCHANGED <<pointers, largePointers>>
    /\ IF isUnknown(off)
       THEN /\ UNCHANGED <<ids, idVector>>
            /\ last' = Call("abort", <<s, target, off>>, FALSE)
       ELSE /\ ids' = IF isOffsetValid(off) THEN idsAfter(target) ELSE ids
            /\ idVector' = IF isOffsetValid(off) THEN idVectorAfter(target)
                           ELSE idVector
            /\ last' = Call("mustPointTo", <<s, target, off>>,
                            mustPointTo(SV(s), Pointer(target, off)))
    /\ UNCHANGED rdVars

\* The mutators of Spec together with the queries.
NextQueries ==
    \/ Alive /\ Next
    \/ \E s \in Sets, t \in Targets, o \in Offsets : PointsTo(s, t, o)
    \/ \E s \in Sets, t \in Targets : PointsToTarget(s, t)
    \/ \E s \in Sets, t \in Targets, o \in Offsets : MustPointTo(s, t, o)

SpecQueries == Init /\ [][NextQueries]_vars

\* ---------------------------------------------- building graph and analysis

\* graph.create(t): the graph allocates a node and hands out the next identity
Create ==
    /\ Alive
    /\ Len(nodes) < MaxNodes
    /\ lastNodeID' = create(lastNodeID).lastNodeID
    /\ nodes' = Append(nodes, create(lastNodeID).node)
    /\ last' = Call("create", <<Len(nodes) + 1>>, TRUE)
    /\ UNCHANGED <<root, options, dfsnum, pc, to_process, changed, passes>>
    /\ UNCHANGED ptVars

\* new RDNode(t): a node built without a graph has identity 0
NewNode ==
    /\ Alive
    /\ Len(nodes) < MaxNodes
    /\ nodes' = Append(nodes, RDNode(0))
    /\ last' = Call("RDNode", <<Len(nodes) + 1>>, TRUE)
    /\ UNCHANGED <<lastNodeID, root, options, dfsnum, pc, to_process, changed, passes>>
    /\ UNCHANGED ptVars

\* graph.setRoot(r), or the graph constructed with root r
SetRoot(r) ==
    /\ Alive
    /\ pc = "build"
    /\ root' = r
    /\ last' = Call("setRoot", <<r>>, FALSE)
    /\ UNCHANGED <<nodes, lastNodeID, options, dfsnum, pc, to_process, changed, passes>>
    /\ UNCHANGED ptVars

\* ReachingDefinitionsAnalysis(std::move(graph), opts) with opts.maxSetSize =
\* maxSetSize: the moved graph keeps its root and counter, dfsnum starts at 0,
\* and a failed assertion ends the process.
Construct(maxSetSize) ==
    /\ Alive
    /\ pc = "build"
    /\ IF constructible(root, maxSetSize)
       THEN /\ pc' = "constructed"
            /\ options' = [maxSetSize |-> maxSetSize]
            /\ dfsnum' = 0
            /\ last' = Call("ReachingDefinitionsAnalysis", <<root, maxSetSize>>, TRUE)
       ELSE /\ UNCHANGED <<pc, options, dfsnum>>
            /\ last' = Call("abort", <<root, maxSetSize>>, FALSE)
    /\ UNCHANGED <<nodes, lastNodeID, root, to_process, changed, passes>>
    /\ UNCHANGED ptVars

NextGraph ==
    \/ Create
    \/ NewNode
    \/ \E r \in Addrs \cup {nullptr} : SetRoot(r)
    \/ \E m \in 0..MaxCap : Construct(m)

SpecGraph == Init /\ [][NextGraph]_vars

\* -------------------------------------------------------- one node's sites

\* The nodes a graph created: UNKNOWN_MEMORY is not given sites.
GraphNodes == Addrs \ {UNKNOWN_MEMORY}

\* The node at address n becomes node; the graph and the analysis stay.
StoreNode(n, node) ==
    /\ nodes' = [nodes EXCEPT ![n] = node]
    /\ UNCHANGED <<lastNodeID, root, options, dfsnum, pc, to_process, changed, passes>>
    /\ UNCHANGED ptVars

\* n->addDef(ds, strong_update)
AddDef(n, ds, strong_update) ==
    /\ StoreNode(n, addDef(nodes[n], n, ds, strong_update))
    /\ last' = Call("addDef", <<n, ds, strong_update>>, FALSE)

\* n->addOverwrites(ds)
AddOverwrites(n, ds) ==
    /\ StoreNode(n, addOverwrites(nodes[n], n, ds))
    /\ last' = Call("addOverwrites", <<n, ds>>, FALSE)

\* n->addUse(ds)
AddUse(n, ds) ==
    /\ StoreNode(n, addUse(nodes[n], n, ds))
    /\ last' = Call("addUse", <<n, ds>>, FALSE)

\* n->defines(target, off)
Defines(n, target, off) ==
    /\ StoreNode(n, nodes[n])
    /\ last' = Call("defines", <<n, target, off>>, defines(nodes[n], target, off))

\* A graph that created one node.
InitNode ==
    /\ pointers = [s \in Sets |-> {}]
    /\ largePointers = [s \in Sets |-> {}]
    /\ ids = [t \in Targets |-> 0]
    /\ idVector = << >>
    /\ last = [op |-> "init", args |-> << >>, ret |-> FALSE, tick |-> 0]
    /\ nodes = <<RDNode(0), create(0).node>>
    /\ lastNodeID = create(0).lastNodeID
    /\ root = nullptr
    /\ options = [maxSetSize |-> 0]
    /\ dfsnum = 0
    /\ pc = "build"
    /\ to_process = << >>
    /\ changed = {}
    /\ passes = 0

NextNode ==
    \/ \E n \in GraphNodes, ds \in Sites, b \in BOOLEAN : AddDef(n, ds, b)
    \/ \E n \in GraphNodes, ds \in Sites : AddOverwrites(n, ds)
    \/ \E n \in GraphNodes, ds \in Sites : AddUse(n, ds)
    \/ \E n \in GraphNodes, t \in MemTargets, o \in QueryOffsets : Defines(n, t, o)

SpecNode == InitNode /\ [][NextNode]_vars

\* --------------------------------------------------- one node's accessors

\* getDefines() and getOverwrites() of a node, and the overloads that a const
\* node selects
getDefines(node) == node.defs
getOverwrites(node) == node.overwrites
getDefinesConst(node) == node.defs
getOverwritesConst(node) == node.defs

\* n->getDefines(); the call is recorded with the collection it returns
GetDefines(n) ==
    /\ StoreNode(n, nodes[n])
    /\ last' = Call("getDefines", <<n, getDefines(nodes[n])>>, FALSE)

\* n->getOverwrites()
GetOverwrites(n) ==
    /\ StoreNode(n, nodes[n])
    /\ last' = Call("getOverwrites", <<n, getOverwrites(nodes[n])>>, FALSE)

\* static_cast<const RDNode *>(n)->getDefines()
GetDefinesConst(n) ==
    /\ StoreNode(n, nodes[n])
    /\ last' = Call("getDefines const", <<n, getDefinesConst(nodes[n])>>, FALSE)

\* static_cast<const RDNode *>(n)->getOverwrites()
GetOverwritesConst(n) ==
    /\ StoreNode(n, nodes[n])
    /\ last' = Call("getOverwrites const",
                    <<n, getOverwritesConst(nodes[n])>>, FALSE)

NextAccess ==
    \/ \E n \in GraphNodes, ds \in Sites, b \in BOOLEAN : AddDef(n, ds, b)
    \/ \E n \in GraphNodes, ds \in Sites : AddOverwrites(n, ds)
    \/ \E n \in GraphNodes : GetDefines(n)
    \/ \E n \in GraphNodes : GetOverwrites(n)
    \/ \E n \in GraphNodes : GetDefinesConst(n)
    \/ \E n \in GraphNodes : GetOverwritesConst(n)

SpecAccess == InitNode /\ [][NextAccess]_vars

\* ------------------------------------------------------------------- run()

\* The graphs the analysis runs on: three nodes made by create, the first one
\* the root, at most MaxEdges edges between them, and each node with no site,
\* a weak or a strong definition of X[0,4), or a weak definition of X[2,6).
RunNodes == 2..4
RunRoot == UNKNOWN_MEMORY + 1
EdgeSets ==
    {E \in SUBSET {<<a, b>> \in RunNodes \X RunNodes : a # b} :
        Cardinality(E) <= MaxEdges}
NodeKinds == {"none", "weak04", "strong04", "weak26"}

\* The node at address a of the graph with edges E, after the builder's calls.
Built(a, kind, E) ==
    LET n == [RDNode(a - UNKNOWN_MEMORY) EXCEPT
                !.successors = Ascending({b \in RunNodes : <<a, b>> \in E})]
    IN  CASE kind = "none" -> n
          [] kind = "weak04" -> addDef(n, a, X04, FALSE)
          [] kind = "strong04" -> addOverwrites(n, a, X04)
          [] kind = "weak26" -> addDef(n, a, X26, FALSE)

\* An analysis constructed over a finished graph.
InitRun ==
    /\ pointers = [s \in Sets |-> {}]
    /\ largePointers = [s \in Sets |-> {}]
    /\ ids = [t \in Targets |-> 0]
    /\ idVector = << >>
    /\ last = [op |-> "init", args |-> << >>, ret |-> FALSE, tick |-> 0]
    /\ \E E \in EdgeSets, kind \in [RunNodes -> NodeKinds] :
          nodes = <<RDNode(0)>> \o [i \in 1..Cardinality(RunNodes) |->
                                      Built(i + UNKNOWN_MEMORY,
                                            kind[i + UNKNOWN_MEMORY], E)]
    /\ lastNodeID = Cardinality(RunNodes)
    /\ root = RunRoot
    /\ \E m \in 1..MaxCap : options = [maxSetSize |-> m]
    /\ dfsnum = 0
    /\ pc = "constructed"
    /\ to_process = << >>
    /\ changed = {}
    /\ passes = 0

\* A pass starts: to_process = getNodes(getRoot())
StartPass ==
    LET r == getNodes(nodes, root, dfsnum + 1)
    IN  /\ dfsnum' = dfsnum + 1
        /\ nodes' = r.nodes
        /\ to_process' = r.cont
        /\ changed' = {}
        /\ passes' = passes + 1
        /\ pc' = "run"
        /\ last' = Call("getNodes", <<root>>, FALSE)
        /\ UNCHANGED <<lastNodeID, root, options>>
        /\ UNCHANGED ptVars

\* analysis.run() is called
Run ==
    /\ pc = "constructed"
    /\ StartPass

\* The pass processes its next node.
ProcessNode ==
    /\ pc = "run"
    /\ to_process # << >>
    /\ LET n == Head(to_process)
           node == processNode(nodes, n, options.maxSetSize)
       IN  /\ nodes' = [nodes EXCEPT ![n] = node]
           /\ changed' = IF node.def_map # nodes[n].def_map
                         THEN changed \cup {n} ELSE changed
           /\ last' = Call("processNode", <<n>>, node.def_map # nodes[n].def_map)
    /\ to_process' = Tail(to_process)
    /\ UNCHANGED <<lastNodeID, root, options, dfsnum, pc, passes>>
    /\ UNCHANGED ptVars

\* The pass is over: another one when it changed a node, else run() returns.
EndPass ==
    /\ pc = "run"
    /\ to_process = << >>
    /\ IF changed # {}
       THEN StartPass
       ELSE /\ pc' = "done"
            /\ last' = Call("run", << >>, FALSE)
            /\ UNCHANGED <<nodes, lastNodeID, root, options, dfsnum,
                           to_process, changed, passes>>
            /\ UNCHANGED ptVars

NextRun ==
    \/ Run
    \/ ProcessNode
    \/ EndPass

SpecRun == InitRun /\ [][NextRun]_vars

\* run() is not stopped from outside: a step that can be taken is taken.
SpecRunFair == InitRun /\ [][NextRun]_vars /\ WF_vars(NextRun)

\* ------------------------------------------------------- Offset arithmetic

\* The offsets added in the model: the smallest ones and the largest ones of
\* the width, UNKNOWN among them.
AddedOffsets ==
    {0, 1, 2, 3, UNKNOWN - 3, UNKNOWN - 2, UNKNOWN - 1, UNKNOWN}

\* Offset::operator+ : a + b, the sum taken in the width of an offset
OffsetPlus(a, b) ==
    IF a = UNKNOWN \/ b = UNKNOWN THEN UNKNOWN
    ELSE (a + b) % 2^OffsetBits

\* Offset::operator+= : a after a += b
OffsetPlusAssign(a, b) ==
    IF a = UNKNOWN THEN a
    ELSE IF b = UNKNOWN THEN UNKNOWN
    ELSE (a + b) % 2^OffsetBits

\* Two offsets a and b, nothing added yet.
InitOffset ==
    /\ pointers = [s \in Sets |-> {}]
    /\ largePointers = [s \in Sets |-> {}]
    /\ ids = [t \in Targets |-> 0]
    /\ idVector = << >>
    /\ \E a, b \in AddedOffsets :
          last = [op |-> "init", args |-> <<a, b>>, ret |-> FALSE, tick |-> 0]
    /\ nodes = <<RDNode(0)>>
    /\ lastNodeID = 0
    /\ root = nullptr
    /\ options = [maxSetSize |-> 0]
    /\ dfsnum = 0
    /\ pc = "build"
    /\ to_process = << >>
    /\ changed = {}
    /\ passes = 0

\* a + b; the call is recorded with its operands and its result
Plus ==
    /\ last.op = "init"
    /\ last' = Call("operator+",
                    <<last.args[1], last.args[2],
                      OffsetPlus(last.args[1], last.args[2])>>, FALSE)
    /\ UNCHANGED rdVars
    /\ UNCHANGED ptVars

\* a += b; the call is recorded with its operands and the new value of a
PlusAssign ==
    /\ last.op = "init"
    /\ last' = Call("operator+=",
                    <<last.args[1], last.args[2],
                      OffsetPlusAssign(last.args[1], last.args[2])>>, FALSE)
    /\ UNCHANGED rdVars
    /\ UNCHANGED ptVars

NextOffset ==
    \/ Plus
    \/ PlusAssign

SpecOffset == InitOffset /\ [][NextOffset]_vars

\* -------------------------------------------------------------- getNodes()

\* An analysis constructed over a finished graph whose nodes have no sites.
InitTraverse ==
    /\ pointers = [s \in Sets |-> {}]
    /\ largePointers = [s \in Sets |-> {}]
    /\ ids = [t \in Targets |-> 0]
    /\ idVector = << >>
    /\ last = [op |-> "init", args |-> << >>, ret |-> FALSE, tick |-> 0]
    /\ \E E \in EdgeSets :
          nodes = <<RDNode(0)>> \o [i \in 1..Cardinality(RunNodes) |->
                                      Built(i + UNKNOWN_MEMORY, "none", E)]
    /\ lastNodeID = Cardinality(RunNodes)
    /\ root = RunRoot
    /\ options = [maxSetSize |-> MaxCap]
    /\ dfsnum = 0
    /\ pc = "constructed"
    /\ to_process = << >>
    /\ changed = {}
    /\ passes = 0

\* to_process = getNodes(start)
GetNodes(start) ==
    /\ dfsnum < MaxRuns
    /\ LET r == getNodes(nodes, start, dfsnum + 1)
       IN  /\ dfsnum' = dfsnum + 1
           /\ nodes' = r.nodes
           /\ to_process' = r.cont
    /\ last' = Call("getNodes", <<start>>, FALSE)
    /\ UNCHANGED <<lastNodeID, root, options, pc, changed, passes>>
    /\ UNCHANGED ptVars

NextTraverse == \E start \in RunNodes : GetNodes(start)

SpecTraverse == InitTraverse /\ [][NextTraverse]_vars

\* ------------------------------------------------------------- properties

\* The pointers p with s.pointsTo(p).
Members(s) == {p \in Pointers : pointsTo(SV(s), p)}

\* The step is a call of op.
Did(op) == last'.op = op

\* The state follows the call op(args).
After(op, args) == last.op = op /\ last.args = args

\* C1: no set ever holds (T, UNKNOWN) together with (T, k) for a finite k,
\* whatever sequence of add, add(set), remove, removeAny and clear ran.
C1_UnknownExcludesFinite ==
    \A s \in Sets, t \in Targets, k \in FiniteOffsets :
        ~(pointsTo(SV(s), Pointer(t, UNKNOWN)) /\ pointsTo(SV(s), Pointer(t, k)))

\* C2: add(target, offset) returns true iff the set changed: with
\* (target, UNKNOWN) present it returns false and changes nothing; otherwise
\* an UNKNOWN add drops the target's finite entries, inserts (target, UNKNOWN)
\* and returns true; otherwise a finite add inserts the pointer and returns
\* true iff it was absent.
C2_AddReturnsChange ==
    [][Did("add") =>
        \A s \in Sets, t \in Targets, o \in Offsets :
            last'.args = <<s, t, o>> =>
                LET before == Members(s)
                    after == Members(s)'
                    hadUnknown == Pointer(t, UNKNOWN) \in before
                IN  /\ last'.ret <=> (after # before)
                    /\ hadUnknown =>
                           /\ ~last'.ret
                           /\ pointers'[s] = pointers[s]
                           /\ largePointers'[s] = largePointers[s]
                    /\ ~hadUnknown /\ isUnknown(o) =>
                           /\ last'.ret
                           /\ after = {q \in before : q.target # t}
                                          \cup {Pointer(t, UNKNOWN)}
                    /\ ~hadUnknown /\ ~isUnknown(o) =>
                           /\ last'.ret <=> (Pointer(t, o) \notin before)
                           /\ after = before \cup {Pointer(t, o)}
      ]_vars

\* A finite add on a target that has UNKNOWN returned false.
C2_Witness ==
    /\ last.op = "add"
    /\ ~last.ret
    /\ ~isUnknown(last.args[3])
    /\ pointsTo(SV(last.args[1]), Pointer(last.args[2], UNKNOWN))
    /\ ~pointsTo(SV(last.args[1]), Pointer(last.args[2], last.args[3]))

\* C3: after A.add(B) A holds exactly the pointers of A and of B, in the bit
\* vector and in the overflow set alike, B is unchanged, and the call returns
\* true iff A gained a pointer.
C3_AddSetIsUnion ==
    [][Did("addSet") =>
        \A a \in Sets, b \in Sets :
            last'.args = <<a, b>> =>
                /\ Members(a)' = Members(a) \cup Members(b)
                /\ pointers'[a] = pointers[a] \cup pointers[b]
                /\ largePointers'[a] = largePointers[a] \cup largePointers[b]
                /\ pointers'[b] = pointers[b]
                /\ largePointers'[b] = largePointers[b]
                /\ last'.ret <=> (Members(a)' \ Members(a) # {})
      ]_vars

\* A.add(B) returned true for two different sets: A gained an overflow
\* pointer of B and kept a bit-vector pointer that B has not.
C3_Witness ==
    /\ last.op = "addSet"
    /\ last.ret
    /\ last.args[1] # last.args[2]
    /\ largePointers[last.args[2]] # {}
    /\ largePointers[last.args[2]] \subseteq largePointers[last.args[1]]
    /\ pointers[last.args[1]] \ pointers[last.args[2]] # {}

\* C4 as stated: after add(p), pointsTo(p) is true.
C4_AddThenPointsTo ==
    [][Did("add") =>
        \A s \in Sets, t \in Targets, o \in Offsets :
            last'.args = <<s, t, o>> => pointsTo(SV(s), Pointer(t, o))'
      ]_vars

\* C4, amended: after add(p), mayPointTo(p) is true, and pointsTo(p) is true
\* unless p has a finite offset and (p.target, UNKNOWN) was in the set before
\* the call (the add then changes nothing); remove(p) right after add(p) makes
\* pointsTo(p) false.
C4_AddThenMayPointTo ==
    [][/\ Did("add") =>
            \A s \in Sets, t \in Targets, o \in Offsets :
                last'.args = <<s, t, o>> =>
                    /\ mayPointTo(SV(s), Pointer(t, o))'
                    /\ \/ pointsTo(SV(s), Pointer(t, o))'
                       \/ /\ ~isUnknown(o)
                          /\ pointsTo(SV(s), Pointer(t, UNKNOWN))
                          /\ pointers'[s] = pointers[s]
                          /\ largePointers'[s] = largePointers[s]
       /\ (Did("remove") /\ last.op = "add" /\ last'.args = last.args) =>
            \A s \in Sets, t \in Targets, o \in Offsets :
                last'.args = <<s, t, o>> => ~pointsTo(SV(s), Pointer(t, o))'
      ]_vars

\* remove(p) took out a pointer that had been added (it returned true and p
\* is gone) and left the rest of the set.
C4_Witness ==
    /\ last.op = "remove"
    /\ last.ret
    /\ ~pointsTo(SV(last.args[1]), Pointer(last.args[2], last.args[3]))
    /\ size(SV(last.args[1])) > 0

\* C5: after add(T, UNKNOWN), mayPointTo((T, k)) is true and pointsTo((T, k))
\* is false for every finite k.
C5_UnknownPurgesFinite ==
    [][Did("add") =>
        \A s \in Sets, t \in Targets :
            last'.args = <<s, t, UNKNOWN>> =>
                \A k \in FiniteOffsets :
                    /\ mayPointTo(SV(s), Pointer(t, k))'
                    /\ ~pointsTo(SV(s), Pointer(t, k))'
      ]_vars

\* C6: merging is commutative and idempotent: after A.add(B) then B.add(A)
\* both sets hold the same pointers; a second A.add(B) returns false; add(p)
\* of a pointer that is present returns false and leaves size() unchanged.
C6_MergeCommutesAndIdempotent ==
    [][/\ (Did("addSet") /\ last.op = "addSet") =>
            \A a \in Sets, b \in Sets :
                /\ (last.args = <<a, b>> /\ last'.args = <<b, a>>) =>
                       /\ Members(a)' = Members(b)'
                       /\ pointers'[a] = pointers'[b]
                       /\ largePointers'[a] = largePointers'[b]
                /\ (last.args = <<a, b>> /\ last'.args = <<a, b>>) =>
                       ~last'.ret
       /\ Did("add") =>
            \A s \in Sets, t \in Targets, o \in Offsets :
                (last'.args = <<s, t, o>> /\ pointsTo(SV(s), Pointer(t, o))) =>
                    /\ ~last'.ret
                    /\ size(SV(s))' = size(SV(s))
      ]_vars

\* A merge of two different sets returned false and left both holding the
\* same two pointers, one of them in the overflow set.
C6_Witness ==
    /\ last.op = "addSet"
    /\ ~last.ret
    /\ last.args[1] # last.args[2]
    /\ Members(last.args[1]) = Members(last.args[2])
    /\ size(SV(last.args[1])) >= 2
    /\ largePointers[last.args[1]] # {}

\* C7: removeAny(T) removes every entry of target T (small, large, UNKNOWN),
\* so pointsToTarget(T) is false afterwards, leaves the entries of the other
\* targets, and returns true iff it removed an entry; remove(p) removes
\* exactly p and returns true iff p was present.
C7_RemoveFrame ==
    [][/\ Did("removeAny") =>
            \A s \in Sets, t \in Targets :
                last'.args = <<s, t>> =>
                    LET before == Members(s)
                    IN  /\ Members(s)' = {q \in before : q.target # t}
                        /\ ~pointsToTarget(SV(s), t)'
                        /\ last'.ret <=> (\E q \in before : q.target = t)
       /\ Did("remove") =>
            \A s \in Sets, t \in Targets, o \in Offsets :
                last'.args = <<s, t, o>> =>
                    LET before == Members(s)
                    IN  /\ Members(s)' = before \ {Pointer(t, o)}
                        /\ last'.ret <=> (Pointer(t, o) \in before)
      ]_vars

\* removeAny returned true and the set still holds an entry of another target.
C7_Witness ==
    /\ last.op = "removeAny"
    /\ last.ret
    /\ ~pointsToTarget(SV(last.args[1]), last.args[2])
    /\ \E q \in Members(last.args[1]) : q.target # last.args[2]

\* C8: size() is the number of pointers p with pointsTo(p), isSingleton() is
\* true iff that number is 1 and empty() iff it is 0.
C8_SizeCountsMembers ==
    \A s \in Sets :
        LET n == Cardinality(Members(s))
        IN  /\ size(SV(s)) = n
            /\ isSingleton(SV(s)) <=> (n = 1)
            /\ empty(SV(s)) <=> (n = 0)

\* A set with one pointer in the bit vector and one in the overflow set.
C8_Witness ==
    \E s \in Sets :
        /\ bvSize(pointers[s]) = 1
        /\ Cardinality(largePointers[s]) = 1
        /\ ~isSingleton(SV(s))

\* Where set s keeps its pointers: a finite offset up to 62 as the bit
\* (id - 1) * 64 + offset and not in the overflow set, a larger finite offset
\* in the overflow set, UNKNOWN as the bit (id - 1) * 64 + 63; every bit is
\* one of a target that has an identity.
Layout(s) ==
    /\ \A p \in largePointers[s] :
           ~isUnknown(p.offset) /\ p.offset > MaxSmallOffset
    /\ \A b \in pointers[s] : \E t \in Targets : ids[t] = (b \div Stride) + 1
    /\ \A t \in Targets, k \in FiniteOffsets :
           pointsTo(SV(s), Pointer(t, k)) <=>
               IF k <= MaxSmallOffset
               THEN ids[t] # 0 /\ ((ids[t] - 1) * Stride + k) \in pointers[s]
               ELSE Pointer(t, k) \in largePointers[s]
    /\ \A t \in Targets :
           pointsTo(SV(s), Pointer(t, UNKNOWN)) <=>
               (ids[t] # 0 /\ ((ids[t] - 1) * Stride + UnknownBit) \in pointers[s])

DenseLess(p, q) ==
    IF p.target = q.target THEN p.offset < q.offset
    ELSE ids[p.target] < ids[q.target]

\* C10: a loop from begin() to end() visits every member once and nothing
\* else, size() pointers in all (none for an empty set, where begin() is
\* end()): first the bit-vector entries by ascending identity of the target
\* and then ascending offset, bit 63 read as UNKNOWN, then the overflow
\* entries in the order of the std::set.
C10_IterationVisitsMembers ==
    \A s \in Sets :
        LET seq == Iterate(SV(s))
            n == bvSize(pointers[s])
        IN  /\ Len(seq) = size(SV(s))
            /\ {seq[i] : i \in 1 .. Len(seq)} = Members(s)
            /\ \A i \in 1 .. Len(seq), j \in 1 .. Len(seq) :
                   i < j => seq[i] # seq[j]
            /\ \A i \in 1 .. Len(seq) :
                   isOffsetValid(seq[i].offset) <=> (i <= n)
            /\ \A i \in 1 .. Len(seq), j \in 1 .. Len(seq) :
                   i < j =>
                       /\ j <= n => DenseLess(seq[i], seq[j])
                       /\ i > n => PointerLess(seq[i], seq[j])
            /\ itEqual(begin(SV(s)), end(SV(s))) <=> empty(SV(s))

\* A set of three pointers: (T2, UNKNOWN) and (T1, 62) in the bit vector, T2
\* having the smaller identity, and one pointer in the overflow set.
C10_Witness ==
    \E s \in Sets :
        /\ ids[2] = 1
        /\ ids[1] = 2
        /\ Len(Iterate(SV(s))) = 3
        /\ Iterate(SV(s))[1] = Pointer(2, UNKNOWN)
        /\ Iterate(SV(s))[2] = Pointer(1, MaxSmallOffset)
        /\ ~isOffsetValid(Iterate(SV(s))[3].offset)

\* C11: the identity table only grows, whatever the call, queries included:
\* the identities handed out are exactly 1..n for the n targets looked up so
\* far, one per target, idVector[id - 1] is the target of id, a target keeps
\* the identity it has, and pointsTo on a target not seen before gives it the
\* next identity.
IdTableConsistent(i, v) ==
    /\ {i[t] : t \in {u \in Targets : i[u] # 0}} = 1..Len(v)
    /\ \A t \in Targets : i[t] # 0 => v[i[t]] = t
    /\ \A t, u \in Targets : i[t] # 0 /\ i[t] = i[u] => t = u

C12_MustPointToIsExactlyP ==
    last.op = "mustPointTo" =>
        LET s == last.args[1]
            p == Pointer(last.args[2], last.args[3])
        IN  /\ ~isUnknown(p.offset)
            /\ last.ret <=> Members(s) = {p}
            /\ last.ret <=> (pointsTo(SV(s), p) /\ size(SV(s)) = 1)

\* mustPointTo(p) said no although p is a member: the set holds more than p.
C12_Witness ==
    /\ last.op = "mustPointTo"
    /\ ~last.ret
    /\ pointsTo(SV(last.args[1]), Pointer(last.args[2], last.args[3]))

\* mustPointTo with an UNKNOWN offset ended the process at the assertion.
C12_AbortReached ==
    last.op = "abort" /\ isUnknown(last.args[3])

\* C17: the k-th create call of a graph returns the node with identity k: the
\* identities start at 1, grow by one with each create and are never 0; a node
\* built without a graph (UNKNOWN_MEMORY, a root made by hand) has identity 0,
\* and neither building such a node nor setRoot takes an identity from the
\* counter or changes the identity of any node.
Created(ns) == {a \in 1..Len(ns) : ns[a].id # 0}

C17_CreateNumbersNodes ==
    [][/\ Did("create") =>
            /\ nodes'[last'.args[1]].id = Cardinality(Created(nodes)) + 1
            /\ nodes'[last'.args[1]].id = lastNodeID'
            /\ nodes'[last'.args[1]].id >= 1
            /\ \A a \in Addrs : nodes[a].id < nodes'[last'.args[1]].id
       /\ Did("RDNode") => nodes'[last'.args[1]].id = 0 /\ lastNodeID' = lastNodeID
       /\ Did("setRoot") => lastNodeID' = lastNodeID /\ nodes' = nodes
       /\ \A a \in Addrs : nodes'[a].id = nodes[a].id
       /\ nodes'[UNKNOWN_MEMORY].id = 0
       /\ \A a, b \in Created(nodes') : nodes'[a].id = nodes'[b].id => a = b]_vars

\* The second create of a graph whose root was built by hand and set by setRoot.
C17_Witness ==
    /\ last.op = "create"
    /\ nodes[last.args[1]].id = 2
    /\ root # nullptr
    /\ nodes[root].id = 0

\* C20: an analysis is constructed only from a graph with a root and with
\* maxSetSize >= 1, and its getRoot() is then the root of the graph passed in;
\* with a null root or maxSetSize = 0 the constructor's assertion ends the
\* process and no analysis object exists.
C20_ConstructionChecksRootAndCap ==
    /\ pc # "build" => root # nullptr /\ options.maxSetSize >= 1
    /\ last.op = "ReachingDefinitionsAnalysis" =>
            /\ last.args[1] # nullptr
            /\ last.args[2] >= 1
            /\ root = last.args[1]
            /\ pc = "constructed"
    /\ last.op = "abort" /\ Len(last.args) = 2 =>
            /\ last.args[1] = nullptr \/ last.args[2] = 0
            /\ pc = "build"

\* The construction with maxSetSize = 0 of a graph that has a root failed.
C20_Witness ==
    /\ last.op = "abort"
    /\ Len(last.args) = 2
    /\ last.args[1] # nullptr
    /\ last.args[2] = 0

\* An analysis was constructed, and getRoot() is the graph's root.
C20_Constructed ==
    /\ last.op = "ReachingDefinitionsAnalysis"
    /\ root = last.args[1]

\* The step is the call op(args).
Doing(op, args) == last'.op = op /\ last'.args = args

\* C18 (as claimed): addDef adds the site to defs, addOverwrites to overwrites,
\* addUse to uses, each leaving the other two collections as they were; addDef
\* also sets the site's entry of def_map, addOverwrites and addUse leave
\* def_map as it was.
C18_AddDefAddsToDefines ==
    [][\A n \in GraphNodes, ds \in Sites :
        /\ Did("addDef") /\ last'.args[1] = n /\ last'.args[2] = ds =>
              /\ nodes'[n].defs = nodes[n].defs \cup {ds}
              /\ nodes'[n].overwrites = nodes[n].overwrites
              /\ nodes'[n].uses = nodes[n].uses
              /\ nodes'[n].def_map = update(nodes[n].def_map, ds, n)
        /\ Doing("addOverwrites", <<n, ds>>) =>
              /\ nodes'[n].overwrites = nodes[n].overwrites \cup {ds}
              /\ nodes'[n].defs = nodes[n].defs
              /\ nodes'[n].uses = nodes[n].uses
              /\ nodes'[n].def_map = nodes[n].def_map
        /\ Doing("addUse", <<n, ds>>) =>
              /\ nodes'[n].uses = nodes[n].uses \cup {ds}
              /\ nodes'[n].defs = nodes[n].defs
              /\ nodes'[n].overwrites = nodes[n].overwrites
              /\ nodes'[n].def_map = nodes[n].def_map]_vars

\* C18 (amended): as above, but addDef with strong_update set adds the site
\* to overwrites and leaves defs as it was; with or without strong_update it
\* sets the site's entry of def_map.
C18_AddDefAddsByStrength ==
    [][\A n \in GraphNodes, ds \in Sites :
        /\ Doing("addDef", <<n, ds, FALSE>>) =>
              /\ nodes'[n].defs = nodes[n].defs \cup {ds}
              /\ nodes'[n].overwrites = nodes[n].overwrites
              /\ nodes'[n].uses = nodes[n].uses
              /\ nodes'[n].def_map = update(nodes[n].def_map, ds, n)
        /\ Doing("addDef", <<n, ds, TRUE>>) =>
              /\ nodes'[n].overwrites = nodes[n].overwrites \cup {ds}
              /\ nodes'[n].defs = nodes[n].defs
              /\ nodes'[n].uses = nodes[n].uses
              /\ nodes'[n].def_map = update(nodes[n].def_map, ds, n)
        /\ Doing("addOverwrites", <<n, ds>>) =>
              /\ nodes'[n].overwrites = nodes[n].overwrites \cup {ds}
              /\ nodes'[n].defs = nodes[n].defs
              /\ nodes'[n].uses = nodes[n].uses
              /\ nodes'[n].def_map = nodes[n].def_map
        /\ Doing("addUse", <<n, ds>>) =>
              /\ nodes'[n].uses = nodes[n].uses \cup {ds}
              /\ nodes'[n].defs = nodes[n].defs
              /\ nodes'[n].overwrites = nodes[n].overwrites
              /\ nodes'[n].def_map = nodes[n].def_map]_vars

\* addDef with strong_update put a site a use already names into overwrites
\* and into def_map, and defs is still empty.
C18_Witness ==
    /\ last.op = "addDef"
    /\ last.args[3]
    /\ nodes[last.args[1]].defs = {}
    /\ last.args[2] \in nodes[last.args[1]].overwrites
    /\ last.args[2] \in nodes[last.args[1]].uses
    /\ nodes[last.args[1]].def_map[last.args[2]] = {last.args[1]}

\* C19: defines(target, off) is true exactly when a site of defs or of
\* overwrites has that target and its bytes hold off; for off UNKNOWN, exactly
\* when a site of defs or of overwrites has that target.
Covers(ds, target, off) ==
    /\ ds.target = target
    /\ isUnknown(off) \/ inRange(off, ds.offset, ds.offset + ds.len)

C19_DefinesLooksAtBothCollections ==
    last.op = "defines" =>
        LET node == nodes[last.args[1]]
        IN  last.ret <=> \E ds \in node.defs \cup node.overwrites :
                            Covers(ds, last.args[2], last.args[3])

\* What defines does: for a finite off as claimed, for off UNKNOWN only the
\* sites of defs count.
C19_DefinesUnknownLooksAtDefs ==
    last.op = "defines" =>
        LET node == nodes[last.args[1]]
        IN  last.ret <=>
                IF isUnknown(last.args[3])
                THEN \E ds \in node.defs : Covers(ds, last.args[2], last.args[3])
                ELSE \E ds \in node.defs \cup node.overwrites :
                        Covers(ds, last.args[2], last.args[3])

\* The nodes reachable from the nodes of S along successor edges.
RECURSIVE Closure(_, _)
Closure(ns, S) ==
    LET T == S \cup UNION {Range(ns[a].successors) : a \in S}
    IN  IF T = S THEN S ELSE Closure(ns, T)

\* The nodes of the analysed graph: those reachable from the root.
Reachable == Closure(nodes, {root})

Existing(ns, n, q) ==
    getReachingDefinitions(ns[n], q.target, q.offset, q.len)
        \cup UNION {getReachingDefinitions(ns[p], q.target, q.offset, q.len) :
                      p \in predecessors(ns, n)}

Preds(n) == {p \in RunNodes : n \in Range(nodes[p].successors)}

\* C15: in a fixed point, with the root R overwriting X[0,4) and no other site
\* in the graph, every other node S of the graph has exactly {R} reaching
\* X[0,4); and with a node W after R that defines X[0,4) weakly and a node F
\* without sites whose predecessors are R and W, and a cap of 2 or more, F has
\* exactly {R, W}.
NoSites(node) == node.defs = {} /\ node.overwrites = {}

Uncropped(ns, n, r) ==
    ns[n].def_map[r]
        \cup UNION {ns[p].def_map[r] : p \in predecessors(ns, n)}
        \cup (IF r \in ns[n].defs THEN {n} ELSE {})

\* C16: no site of any node ever has more than maxSetSize contributors; when
\* processNode finds more, the site has exactly {UNKNOWN_MEMORY}; and with
\* maxSetSize = 2, the node that three weak definitions of X[0,4) reach has
\* {UNKNOWN_MEMORY} for it when run() is over.
C16_CapCollapsesToUnknown ==
    [][/\ \A n \in RunNodes, r \in Sites :
            /\ Cardinality(nodes'[n].def_map[r]) <= options.maxSetSize
            /\ Did("processNode") /\ last'.args[1] = n
                    /\ r \notin nodes[n].overwrites
                    /\ Cardinality(Uncropped(nodes, n, r)) > options.maxSetSize
                => nodes'[n].def_map[r] = {UNKNOWN_MEMORY}
       /\ pc' = "done" /\ options.maxSetSize = 2
               /\ (\A a \in RunNodes : nodes[a].defs = {X04}) =>
            \A n \in Reachable :
                (\A a \in RunNodes : n \in Closure(nodes, {a}) /\ a \in Reachable)
                    => nodes'[n].def_map[X04] = {UNKNOWN_MEMORY}]_vars

\* run() is over on the chain of three weak definitions of X[0,4) with
\* maxSetSize = 2: the last node has {UNKNOWN_MEMORY}, the one before it two
\* contributors.
C16_Witness ==
    /\ pc = "done"
    /\ options.maxSetSize = 2
    /\ \A a \in RunNodes : nodes[a].defs = {X04}
    /\ \E m, n \in RunNodes :
          /\ Preds(m) = {root}
          /\ Preds(n) = {m}
          /\ Preds(root) = {}
          /\ nodes[m].def_map[X04] = {root, m}
          /\ nodes[n].def_map[X04] = {UNKNOWN_MEMORY}

\* The nodes at most k edges away from the nodes of S.
RECURSIVE Ball(_, _, _)
Ball(ns, S, k) ==
    IF k = 0 THEN S
    ELSE LET B == Ball(ns, S, k - 1)
         IN  B \cup UNION {Range(ns[a].successors) : a \in B}

\* The number of edges of a shortest path from start to a.
Dist(ns, start, a) ==
    CHOOSE k \in 0..Len(ns) :
        /\ a \in Ball(ns, {start}, k)
        /\ k = 0 \/ a \notin Ball(ns, {start}, k - 1)

\* C21: a getNodes(start) call takes the next run number, dfsnum + 1, and
\* returns the nodes reachable from start, each once, the start first and
\* nearer nodes before farther ones, whatever numbers earlier calls left on the
\* nodes; afterwards the nodes that carry the current dfsnum are exactly those
\* the call visited, no node carries a number above dfsnum, and the nodes the
\* call did not reach keep the number they had.
C21_GetNodesVisitsReachableOnce ==
    [][Did("getNodes") =>
        \A start \in RunNodes : last'.args[1] = start =>
            LET reach == Closure(nodes, {start})
                cont == to_process'
            IN  /\ dfsnum' = dfsnum + 1
                /\ Range(cont) = reach
                /\ Len(cont) = Cardinality(reach)
                /\ cont[1] = start
                /\ \A i, j \in 1..Len(cont) :
                      i < j => Dist(nodes, start, cont[i]) <= Dist(nodes, start, cont[j])
                /\ \A a \in Addrs :
                      /\ nodes'[a].dfsid = dfsnum' <=> a \in reach
                      /\ nodes'[a].dfsid <= dfsnum'
                      /\ nodes'[a].dfsid >= nodes[a].dfsid
                      /\ a \notin reach => nodes'[a] = nodes[a]
                      /\ nodes'[a] = visit(nodes[a], nodes'[a].dfsid)]_vars

\* The third call returned two nodes and left aside a node that still carries
\* the number of the second call.
C21_Witness ==
    /\ last.op = "getNodes"
    /\ dfsnum = 3
    /\ Len(to_process) = 2
    /\ \E a \in RunNodes : nodes[a].dfsid = 2
    /\ nodes[UNKNOWN_MEMORY].dfsid = 0

\* C22: a + b is UNKNOWN when a or b is UNKNOWN, a += b leaves in a what a + b
\* returns, and the sum of two finite offsets is their arithmetic sum, a finite
\* offset and never the UNKNOWN value.
C22_FiniteSumIsFinite ==
    last.op \in {"operator+", "operator+="} =>
        LET a == last.args[1]
            b == last.args[2]
            sum == last.args[3]
        IN  /\ isUnknown(a) \/ isUnknown(b) => isUnknown(sum)
            /\ sum = OffsetPlus(a, b)
            /\ sum = OffsetPlusAssign(a, b)
            /\ ~isUnknown(a) /\ ~isUnknown(b) => ~isUnknown(sum) /\ sum = a + b

\* What the addition does: as above, but the sum of two finite offsets is
\* taken in the width of an offset, and is UNKNOWN when it comes to that value.
C22_FiniteSumWraps ==
    last.op \in {"operator+", "operator+="} =>
        LET a == last.args[1]
            b == last.args[2]
            sum == last.args[3]
        IN  /\ isUnknown(a) \/ isUnknown(b) => isUnknown(sum)
            /\ sum = OffsetPlus(a, b)
            /\ sum = OffsetPlusAssign(a, b)
            /\ ~isUnknown(a) /\ ~isUnknown(b) => sum = (a + b) % 2^OffsetBits
            /\ ~isUnknown(a) /\ ~isUnknown(b) /\ a + b < UNKNOWN => sum = a + b

\* Two finite offsets were added and the sum is UNKNOWN.
C22_SumIsUnknown ==
    /\ last.op = "operator+"
    /\ ~isUnknown(last.args[1])
    /\ ~isUnknown(last.args[2])
    /\ isUnknown(last.args[3])

\* C23: after any addDef and addOverwrites calls on a node, its const
\* getOverwrites() returns what its getOverwrites() returns, the node's
\* overwrites, and its const getDefines() returns the node's defs.
C23_ConstAccessorsAgree ==
    /\ last.op = "getOverwrites const" =>
          /\ last.args[2] = getOverwrites(nodes[last.args[1]])
          /\ last.args[2] = nodes[last.args[1]].overwrites
    /\ last.op = "getOverwrites" =>
          last.args[2] = nodes[last.args[1]].overwrites
    /\ last.op = "getDefines const" =>
          last.args[2] = nodes[last.args[1]].defs

\* What the accessors return: the const getOverwrites() returns the node's
\* defs, as both getDefines() do; only getOverwrites() returns the overwrites.
C23_ConstGetOverwritesReturnsDefs ==
    /\ last.op \in {"getOverwrites const", "getDefines const", "getDefines"} =>
          last.args[2] = nodes[last.args[1]].defs
    /\ last.op = "getOverwrites" =>
          last.args[2] = nodes[last.args[1]].overwrites

\* The const getOverwrites() of a node with one strong-update site and no
\* weak-update site returned the empty collection.
C23_OverwritesHidden ==
    /\ last.op = "getOverwrites const"
    /\ nodes[last.args[1]].overwrites = {X04}
    /\ nodes[last.args[1]].defs = {}
    /\ last.args[2] = {}

====
